---- MODULE Spec2Model ----
(***************************************************************************)
(* Real-time collaboration layer of the contrivance services:              *)
(*   - the per-spreadsheet connection registry (ConnectionManager), the    *)
(*     WebSocket connection actor and the request handlers that broadcast  *)
(*     (services/contrivance-service);                                     *)
(*   - the session / refresh-token state machine (services/auth-service,   *)
(*     shared/common jwt.rs and auth.rs).                                  *)
(* Spec is the specification of the registry side and FrameSpec of the     *)
(* frames a connection handles; AuthSpec, LogoutSpec and ConcSpec are the  *)
(* session side with one client, with logout, and with concurrent refresh  *)
(* calls; TokenSpec and PasswordSpec run the JwtService round trip and the *)
(* password rule on their own. Each leaves the other variables unchanged.  *)
(***************************************************************************)
EXTENDS Integers, Sequences, FiniteSets, TLC

\* ------------------------------------------------------------------ bounds
NumHandles == 2
NumCallers == 1
MaxBroadcasts == 1
MaxFrames == 1
MaxIssues == 2
MaxPasswordChars == 8

\* ------------------------------------------------------ program constants
AccessHours == 1
RefreshHours == 24 * 7
SessionHours == 1
MinPasswordLen == 8
MinCriteria == 3

Handles == 1..NumHandles
Callers == 1..NumCallers
\* The requests that can be in flight in refresh_token; AuthSpec runs the
\* calls of the first one, one after the other.
Clients == {"c1", "c2"}
SequentialClients == {"c1"}
Docs == {"d1", "d2"}
Users == {"u1", "u2"}

\* The instants the clock is looked at: the hour a pair is issued, the expiry
\* of its access token and of its session, the hour after, and the hour after
\* the expiry of a refresh token issued at 0.
Instants == {0, AccessHours, AccessHours + 1, RefreshHours + 1}

\* What the Authorization header of an upgrade request carries.
TokenKinds == {"none", "invalid", "expired", "valid"}

\* Events the request handlers broadcast (common::WebSocketMessage).
MessageTypes == {"RowCreated"}

\* Inbound frames of the actix ws stream; Text carries a client payload.
ClosingFrames == {"Close", "Err"}
TextPayloads == {"{type:Ping}", "{type:RowUpdated}", "garbage"}
NoFrame == [kind |-> "none", text |-> ""]
OpenFrames == {[kind |-> k, text |-> ""] : k \in {"Ping", "Pong", "Binary"}}
              \cup {[kind |-> "Text", text |-> t] : t \in TextPayloads}

VARIABLES
    connections,        \* the manager behind Arc<RwLock<..>>, used by /ws actors
    handlerConnections, \* the manager handed to the request handlers
    readers,            \* callers that hold the RwLock's read lock
    hstate,             \* per handle: "Unborn", "Open" or "Closed"
    hdoc,               \* per handle: its spreadsheet_id
    lastUpgrade,        \* history: the latest upgrade request and its outcome
    addTask,            \* per handle: task spawned by started()
    removeTask,         \* per handle: task spawned by stopped()
    mailbox,            \* per handle: SendMessage items not yet handled
    socket,             \* per handle: frames written to the client
    bc,                 \* per caller: one broadcast_to_spreadsheet call
    regd,               \* history: handles added and not removed since
    regOrder,           \* history: per document, those handles in the order they were added
    nbroadcasts,        \* history: number of broadcast calls begun
    nframes,            \* history: number of non-closing frames handled
    lastFrame           \* history: the non-closing frame handled last

VARIABLES
    now,                \* the clock (Utc::now()), in hours
    sessions,           \* the rows of user_sessions
    active,             \* the users whose row has is_active = true
    nextUuid,           \* the next value Uuid::new_v4() returns
    issued,             \* history: the token pairs handed to clients
    rc,                 \* per client: one refresh_token call
    consumed,           \* history: refresh tokens a finished call succeeded with
    revokedAll,         \* history: refresh tokens issued before a logout_all of their user
    lastLogout          \* history: the token the latest successful logout was called with

VARIABLES
    jwtCall,            \* one generate_token / validate_token round of the JwtService
    pwCall              \* one validate_password_strength call

fnvars == <<jwtCall, pwCall>>

authvars == <<now, sessions, active, nextUuid, issued, rc, consumed, revokedAll,
              lastLogout>>

wsvars == <<connections, handlerConnections, readers, hstate, hdoc, lastUpgrade,
            addTask, removeTask, mailbox, socket, bc, regd, regOrder, nbroadcasts, nframes,
                   lastFrame>>

\* ------------------------------------------------------- helper operators
Range(s) == {s[i] : i \in 1..Len(s)}

Occurrences(s, x) == Cardinality({i \in 1..Len(s) : s[i] = x})

RECURSIVE retain(_, _)
\* Vec::retain(|conn| !conn.eq(addr)): keeps the others, in order.
retain(s, addr) ==
    IF s = <<>> THEN <<>>
    ELSE IF Head(s) = addr THEN retain(Tail(s), addr)
         ELSE <<Head(s)>> \o retain(Tail(s), addr)

\* serde_json::to_string of the internally tagged enum: the tag travels with
\* the payload.
to_string(message) == <<"json", message.type, message.spreadsheet_id>>

\* serde_json::from_str::<WebSocketMessage>.
from_str(text) ==
    CASE text = "{type:Ping}" -> [ok |-> TRUE, type |-> "Ping"]
      [] text = "{type:RowUpdated}" -> [ok |-> TRUE, type |-> "RowUpdated"]
      [] OTHER -> [ok |-> FALSE, type |-> "none"]

\* ------------------------------------------------------ ConnectionManager
ConnectionManager_new == [d \in {} |-> <<>>]

\* An add_connection that puts the new handle in front of the list.
add_connection_front(M, spreadsheet_id, addr) ==
    IF spreadsheet_id \in DOMAIN M
    THEN [M EXCEPT ![spreadsheet_id] = <<addr>> \o @]
    ELSE [d \in DOMAIN M \cup {spreadsheet_id} |->
            IF d = spreadsheet_id THEN <<addr>> ELSE M[d]]

add_connection(M, spreadsheet_id, addr) ==
    IF spreadsheet_id \in DOMAIN M
    THEN [M EXCEPT ![spreadsheet_id] = Append(@, addr)]
    ELSE [d \in DOMAIN M \cup {spreadsheet_id} |->
            IF d = spreadsheet_id THEN <<addr>> ELSE M[d]]

\* remove_connection without the retain: the handle stays in the list.
remove_connection_keep(M, spreadsheet_id, addr) == M

\* remove_connection without the is_empty check: the emptied key stays.
remove_connection_leaves_key(M, spreadsheet_id, addr) ==
    IF spreadsheet_id \in DOMAIN M
    THEN [M EXCEPT ![spreadsheet_id] = retain(@, addr)]
    ELSE M

\* A removal that drops the whole list of the spreadsheet.
remove_connection_drops_list(M, spreadsheet_id, addr) ==
    [d \in DOMAIN M \ {spreadsheet_id} |-> M[d]]

remove_connection(M, spreadsheet_id, addr) ==
    IF spreadsheet_id \in DOMAIN M
    THEN LET kept == retain(M[spreadsheet_id], addr)
         IN  IF kept = <<>>
             THEN [d \in DOMAIN M \ {spreadsheet_id} |-> M[d]]
             ELSE [M EXCEPT ![spreadsheet_id] = kept]
    ELSE M

get_connection_count(M, spreadsheet_id) ==
    IF spreadsheet_id \in DOMAIN M THEN Len(M[spreadsheet_id]) ELSE 0

\* A lookup that falls back to another spreadsheet's list when the key is
\* absent.
get_connections_any(M, spreadsheet_id) ==
    IF spreadsheet_id \in DOMAIN M THEN M[spreadsheet_id]
    ELSE IF DOMAIN M = {} THEN <<>>
    ELSE M[CHOOSE d \in DOMAIN M : TRUE]

\* self.connections.get(&spreadsheet_id): the list to iterate, none if absent.
get_connections(M, spreadsheet_id) ==
    IF spreadsheet_id \in DOMAIN M THEN M[spreadsheet_id] ELSE <<>>

\* A write lock that does not wait for the readers.
write_lock_ignores_readers == TRUE

\* connection_manager.write().await is granted only while nobody reads.
write_lock_free == readers = {}

\* The manager a call site uses: the handlers hold connection_manager_data,
\* the /ws actors and broadcast_message hold the Arc<RwLock<..>> one.
Manager(mgr) == IF mgr = "ws" THEN connections ELSE handlerConnections

InRegistry(h) == \E d \in DOMAIN connections : h \in Range(connections[d])

\* --------------------------------------------------------------- routing
\* main.rs route table: the /api scope is wrapped by auth_middleware, the
\* /ws/spreadsheet/{id} route is registered on the App itself.
auth_wrapped(route) == route = "/api"

\* AuthMiddleware::validator puts a User into the request extensions only
\* on a wrapped route and a token that validates.
request_user(route, tok, user) ==
    IF auth_wrapped(route) /\ tok = "valid" THEN user ELSE "none"

\* A wrapped route rejects the request before its handler runs.
request_admitted(route, tok) == auth_wrapped(route) => tok = "valid"

\* --------------------------------------------------------------- Init
IdleCall == [pc |-> "idle", mgr |-> "ws", doc |-> "d1", json |-> <<>>,
             idx |-> 0, sent |-> <<>>, listAtCall |-> <<>>, regAtCall |-> {},
             mapAtCall |-> ConnectionManager_new, err |-> "none"]

WsInit ==
    /\ connections = ConnectionManager_new
    /\ handlerConnections = ConnectionManager_new
    /\ readers = {}
    /\ hstate = [h \in Handles |-> "Unborn"]
    /\ hdoc = [h \in Handles |-> "d1"]
    /\ lastUpgrade = [handle |-> 0, valid_token |-> TRUE, user |-> "none"]
    /\ addTask = [h \in Handles |-> "none"]
    /\ removeTask = [h \in Handles |-> "none"]
    /\ mailbox = [h \in Handles |-> <<>>]
    /\ socket = [h \in Handles |-> <<>>]
    /\ bc = [b \in Callers |-> IdleCall]
    /\ regd = {}
    /\ regOrder = [d \in Docs |-> <<>>]
    /\ nbroadcasts = 0
    /\ nframes = 0
    /\ lastFrame = NoFrame

\* ------------------------------------------------------ connection actor
\* websocket_handler followed by Actor::started of the new actor: the user
\* is the request's User or, when there is none, a fresh anonymous one; the
\* registration is left to a spawned task.
WebsocketHandler(h, d, tok, u) ==
    /\ hstate[h] = "Unborn"
    /\ \A g \in Handles : g < h => hstate[g] # "Unborn"
    /\ request_admitted("/ws", tok)
    /\ hstate' = [hstate EXCEPT ![h] = "Open"]
    /\ hdoc' = [hdoc EXCEPT ![h] = d]
    /\ lastUpgrade' = [handle |-> h, valid_token |-> (tok = "valid"),
                       user |-> IF request_user("/ws", tok, u) = "none"
                                THEN "anonymous"
                                ELSE request_user("/ws", tok, u)]
    /\ addTask' = [addTask EXCEPT ![h] = "pending"]
    /\ UNCHANGED <<authvars, fnvars>>
    /\ UNCHANGED <<connections, handlerConnections, readers, removeTask, mailbox,
                   socket, bc, regd, regOrder, nbroadcasts, nframes,
                   lastFrame>>

\* The task spawned by started(): write lock, add_connection, unlock.
AddTaskRun(h) ==
    /\ addTask[h] = "pending"
    /\ write_lock_free
    /\ connections' = add_connection(connections, hdoc[h], h)
    /\ regd' = regd \cup {h}
    /\ regOrder' = [regOrder EXCEPT ![hdoc[h]] = Append(@, h)]
    /\ addTask' = [addTask EXCEPT ![h] = "done"]
    /\ UNCHANGED <<authvars, fnvars>>
    /\ UNCHANGED <<handlerConnections, readers, hstate, hdoc, lastUpgrade,
                   removeTask, mailbox, socket, bc, nbroadcasts, nframes,
                   lastFrame>>

\* The task spawned by stopped(): write lock, remove_connection, unlock.
RemoveTaskRun(h) ==
    /\ removeTask[h] = "pending"
    /\ write_lock_free
    /\ connections' = remove_connection(connections, hdoc[h], h)
    /\ regd' = regd \ {h}
    /\ regOrder' = [regOrder EXCEPT ![hdoc[h]] = SelectSeq(@, LAMBDA g : g # h)]
    /\ removeTask' = [removeTask EXCEPT ![h] = "done"]
    /\ UNCHANGED <<authvars, fnvars>>
    /\ UNCHANGED <<handlerConnections, readers, hstate, hdoc, lastUpgrade,
                   addTask, mailbox, socket, bc, nbroadcasts, nframes,
                   lastFrame>>

\* What the handler writes to the socket: a pong control frame, and the
\* serialized WebSocketMessage::Pong and WebSocketMessage::Error.
PongFrame == <<"pong", "", "">>
PongJson == <<"json", "Pong", "">>
ErrorJson == <<"json", "Error", "INVALID_FORMAT">>

\* A handler that logs a Ping message like any other message.
frame_reply_silent_ping(frame) ==
    IF frame.kind = "Ping" THEN <<PongFrame>>
    ELSE IF frame.kind \in {"Pong", "Binary"} THEN <<>>
    ELSE IF from_str(frame.text).ok THEN <<>> ELSE <<ErrorJson>>

\* A handler that only logs a parse error.
frame_reply_silent_error(frame) ==
    IF frame.kind = "Ping" THEN <<PongFrame>>
    ELSE IF frame.kind \in {"Pong", "Binary"} THEN <<>>
    ELSE IF from_str(frame.text).ok /\ from_str(frame.text).type = "Ping"
         THEN <<PongJson>> ELSE <<>>

\* A handler that answers every well-formed message as it answers a Ping.
frame_reply_answers_all(frame) ==
    IF frame.kind = "Ping" THEN <<PongFrame>>
    ELSE IF frame.kind \in {"Pong", "Binary"} THEN <<>>
    ELSE IF from_str(frame.text).ok THEN <<PongJson>> ELSE <<ErrorJson>>

\* What StreamHandler::handle writes to the socket for a non-closing frame.
frame_reply(frame) ==
    IF frame.kind = "Ping" THEN <<PongFrame>>
    ELSE IF frame.kind \in {"Pong", "Binary"} THEN <<>>
    ELSE LET parsed == from_str(frame.text)
         IN  IF parsed.ok /\ parsed.type = "Ping" THEN <<PongJson>>
             ELSE IF parsed.ok THEN <<>>
             ELSE <<ErrorJson>>

\* StreamHandler::handle for Ping, Pong, Text and Binary frames.
HandleFrame(h, frame) ==
    /\ hstate[h] = "Open"
    /\ nframes < MaxFrames
    /\ nframes' = nframes + 1
    /\ lastFrame' = frame
    /\ socket' = [socket EXCEPT ![h] = @ \o frame_reply(frame)]
    /\ UNCHANGED <<authvars, fnvars>>
    /\ UNCHANGED <<connections, handlerConnections, readers, hstate, hdoc, lastUpgrade,
                   addTask, removeTask, mailbox, bc, regd, regOrder, nbroadcasts>>

\* StreamHandler::handle for Close and Err: ctx.stop(), then Actor::stopped,
\* which leaves the deregistration to a spawned task. The mailbox closes.
HandleClose(h, frame) ==
    /\ hstate[h] = "Open"
    /\ hstate' = [hstate EXCEPT ![h] = "Closed"]
    /\ removeTask' = [removeTask EXCEPT ![h] = "pending"]
    /\ mailbox' = [mailbox EXCEPT ![h] = <<>>]
    /\ UNCHANGED <<authvars, fnvars>>
    /\ UNCHANGED <<connections, handlerConnections, readers, hdoc, lastUpgrade,
                   addTask, socket, bc, regd, regOrder, nbroadcasts, nframes,
                   lastFrame>>

\* Handler<SendMessage>::handle: ctx.text(msg.0).
HandleSendMessage(h) ==
    /\ hstate[h] = "Open"
    /\ mailbox[h] # <<>>
    /\ socket' = [socket EXCEPT ![h] = Append(@, Head(mailbox[h]))]
    /\ mailbox' = [mailbox EXCEPT ![h] = Tail(@)]
    /\ UNCHANGED <<authvars, fnvars>>
    /\ UNCHANGED <<connections, handlerConnections, readers, hstate, hdoc, lastUpgrade,
                   addTask, removeTask, bc, regd, regOrder, nbroadcasts, nframes,
                   lastFrame>>

\* ------------------------------------------------------------- broadcast
\* Addr::do_send: the item reaches the mailbox of a running actor; on a
\* closed mailbox the error is dropped.
do_send_ok(h) == hstate[h] = "Open"

\* A loop that gives up at the first failed send.
next_index_stop_on_error(idx, ok, len) == IF ok THEN idx + 1 ELSE len + 1

\* The for loop of broadcast_to_spreadsheet after one do_send: on to the
\* next connection whatever the send did.
next_index(idx, ok, len) == idx + 1

BeginCall(b, mgr, d, type) ==
    /\ bc[b].pc = "idle"
    /\ nbroadcasts < MaxBroadcasts
    /\ nbroadcasts' = nbroadcasts + 1
    /\ bc' = [bc EXCEPT ![b] =
            [pc |-> "iter", mgr |-> mgr, doc |-> d,
             json |-> to_string([type |-> type, spreadsheet_id |-> d]),
             idx |-> 1, sent |-> <<>>,
             listAtCall |-> get_connections(Manager(mgr), d),
             regAtCall |-> IF mgr = "ws" THEN {h \in regd : hdoc[h] = d} ELSE {},
             mapAtCall |-> Manager(mgr), err |-> "none"]]

\* broadcast_message: takes the read lock, then broadcast_to_spreadsheet.
BroadcastMessage(b, d, type) ==
    /\ BeginCall(b, "ws", d, type)
    /\ readers' = readers \cup {b}
    /\ UNCHANGED <<authvars, fnvars>>
    /\ UNCHANGED <<connections, handlerConnections, hstate, hdoc, lastUpgrade,
                   addTask, removeTask, mailbox, socket, regd, regOrder, nframes,
                   lastFrame>>

\* A document-mutating request handler (update_spreadsheet, delete_spreadsheet,
\* create_row, update_row, delete_row, sync_salesforce_columns) after its
\* write succeeded: broadcast_to_spreadsheet on the handlers' manager.
HandlerBroadcast(b, d, type, tok) ==
    /\ request_admitted("/api", tok)
    /\ BeginCall(b, "handlers", d, type)
    /\ UNCHANGED <<authvars, fnvars>>
    /\ UNCHANGED <<connections, handlerConnections, readers, hstate, hdoc, lastUpgrade,
                   addTask, removeTask, mailbox, socket, regd, regOrder, nframes,
                   lastFrame>>

\* A loop that writes the payload to the client's socket itself, under the
\* lock, instead of handing it to the handle's mailbox.
BroadcastStep_writes_socket(b) ==
    LET c == bc[b]
        conns == get_connections(Manager(c.mgr), c.doc)
    IN  /\ c.pc = "iter"
        /\ c.idx <= Len(conns)
        /\ LET h == conns[c.idx]
               ok == do_send_ok(h)
           IN  /\ socket' = IF ok THEN [socket EXCEPT ![h] = Append(@, c.json)]
                             ELSE socket
               /\ bc' = [bc EXCEPT ![b].idx = next_index(c.idx, ok, Len(conns)),
                                   ![b].sent = Append(@, [to |-> h, payload |-> c.json,
                                                          ok |-> ok])]
        /\ UNCHANGED <<authvars, fnvars>>
        /\ UNCHANGED <<connections, handlerConnections, readers, hstate, hdoc, lastUpgrade,
                       addTask, removeTask, mailbox, regd, regOrder, nbroadcasts, nframes,
                   lastFrame>>

\* One turn of the for loop: do_send to the next connection.
BroadcastStep(b) ==
    LET c == bc[b]
        conns == get_connections(Manager(c.mgr), c.doc)
    IN  /\ c.pc = "iter"
        /\ c.idx <= Len(conns)
        /\ LET h == conns[c.idx]
               ok == do_send_ok(h)
           IN  /\ mailbox' = IF ok THEN [mailbox EXCEPT ![h] = Append(@, c.json)]
                              ELSE mailbox
               /\ bc' = [bc EXCEPT ![b].idx = next_index(c.idx, ok, Len(conns)),
                                   ![b].sent = Append(@, [to |-> h, payload |-> c.json,
                                                          ok |-> ok])]
        /\ UNCHANGED <<authvars, fnvars>>
        /\ UNCHANGED <<connections, handlerConnections, readers, hstate, hdoc, lastUpgrade,
                       addTask, removeTask, socket, regd, regOrder, nbroadcasts, nframes,
                   lastFrame>>

\* The loop is over: the call returns and the read guard, if any, is dropped.
BroadcastEnd(b) ==
    LET c == bc[b]
        conns == get_connections(Manager(c.mgr), c.doc)
    IN  /\ c.pc = "iter"
        /\ c.idx > Len(conns)
        /\ bc' = [bc EXCEPT ![b] = IdleCall]
        /\ readers' = readers \ {b}
        /\ UNCHANGED <<authvars, fnvars>>
        /\ UNCHANGED <<connections, handlerConnections, hstate, hdoc, lastUpgrade,
                       addTask, removeTask, mailbox, socket, regd, regOrder, nbroadcasts, nframes,
                   lastFrame>>

\* ---------------------------------------------------------------- tokens
\* Uuid::to_string and Uuid::parse_str.
uuid_to_string(u) == <<"uuid", u>>

Uuid_parse_str(str) ==
    IF Len(str) = 2 /\ str[1] = "uuid" THEN [ok |-> TRUE, value |-> str[2]]
    ELSE [ok |-> FALSE, value |-> 0]

\* The secret the JwtService was built with.
Secret == "jwt_secret"

\* A generate_token that gives every token the role "user".
generate_token_default_role(user_id, session_id, role, expires_in_hours, t) ==
    [claims |-> [sub |-> uuid_to_string(user_id),
                 exp |-> t + expires_in_hours,
                 iat |-> t,
                 jti |-> uuid_to_string(session_id),
                 role |-> "user"],
     key |-> Secret]

\* JwtService::generate_token at time t: the claims, signed with the secret.
generate_token(user_id, session_id, role, expires_in_hours, t) ==
    [claims |-> [sub |-> uuid_to_string(user_id),
                 exp |-> t + expires_in_hours,
                 iat |-> t,
                 jti |-> uuid_to_string(session_id),
                 role |-> role],
     key |-> Secret]

\* A validate_token that also wants an unrevoked session row of the user.
validate_token_checks_store(token, t) ==
    IF /\ token.key = Secret /\ token.claims.exp >= t
       /\ \E r \in sessions : /\ uuid_to_string(r.user_id) = token.claims.sub
                              /\ ~r.is_revoked
    THEN [ok |-> TRUE, claims |-> token.claims]
    ELSE [ok |-> FALSE, claims |-> token.claims]

\* JwtService::validate_token at time t: signature and exp only.
validate_token(token, t) ==
    IF token.key = Secret /\ token.claims.exp >= t
    THEN [ok |-> TRUE, claims |-> token.claims]
    ELSE [ok |-> FALSE, claims |-> token.claims]

\* JwtService::create_token_pair at time t.
create_token_pair(user_id, session_id, role, t) ==
    [access |-> generate_token(user_id, session_id, role, AccessHours, t),
     refresh |-> generate_token(user_id, session_id, role, RefreshHours, t)]

\* JwtService::extract_session_id and extract_user_id at time t.
extract_session_id(token, t) ==
    IF validate_token(token, t).ok
    THEN Uuid_parse_str(validate_token(token, t).claims.jti)
    ELSE [ok |-> FALSE, value |-> 0]

extract_user_id(token, t) ==
    IF validate_token(token, t).ok
    THEN Uuid_parse_str(validate_token(token, t).claims.sub)
    ELSE [ok |-> FALSE, value |-> 0]

\* SessionService::generate_session_hash: SHA-256 of the token, in hex.
generate_session_hash(token) == <<"sha256", token>>

\* An is_session_valid that looks at the revocation flag only.
is_session_valid_ignores_expiry(session, t) == ~session.is_revoked

\* SessionService::is_session_valid at time t.
is_session_valid(session, t) == ~session.is_revoked /\ t < session.expires_at

\* --------------------------------------------------------- AuthRepository
\* INSERT INTO user_sessions: the row gets an id of its own.
create_session(S, id, user_id, token_hash, expires_at, t) ==
    S \cup {[id |-> id, user_id |-> user_id, token_hash |-> token_hash,
             expires_at |-> expires_at, created_at |-> t, is_revoked |-> FALSE]}

\* SELECT ... WHERE token_hash = $1: the rows fetch_optional chooses from.
find_session_by_token_hash(S, token_hash) == {r \in S : r.token_hash = token_hash}

\* An UPDATE ... WHERE id = $1 that matches no row.
revoke_session_noop(S, session_id) == S

\* UPDATE user_sessions SET is_revoked = true WHERE id = $1.
revoke_session(S, session_id) ==
    {IF r.id = session_id THEN [r EXCEPT !.is_revoked = TRUE] ELSE r : r \in S}

\* An UPDATE that sets nothing.
revoke_all_user_sessions_noop(S, user_id) == S

\* UPDATE user_sessions SET is_revoked = true WHERE user_id = $1.
revoke_all_user_sessions(S, user_id) ==
    {IF r.user_id = user_id THEN [r EXCEPT !.is_revoked = TRUE] ELSE r : r \in S}

cleanup_expired_sessions_at_expiry(S, t) ==
    {r \in S : ~(r.expires_at <= t \/ r.is_revoked)}

\* DELETE FROM user_sessions WHERE expires_at < $1 OR is_revoked = true.
cleanup_expired_sessions(S, t) == {r \in S : ~(r.expires_at < t \/ r.is_revoked)}

\* result.rows_affected() of that DELETE: the number of rows its WHERE matched.
cleanup_rows_affected(S, t) == Cardinality({r \in S : r.expires_at < t \/ r.is_revoked})

\* ------------------------------------------------- JwtService round trip
\* The arguments generate_token is called with: any user, any session id,
\* any role string the services use, either lifetime, at either of two hours.
Roles == {"user", "admin"}
SessionIds == 1..(2 * MaxIssues)
IdleJwt == [pc |-> "idle", user_id |-> "none", session_id |-> 0, role |-> "none",
            hours |-> 0, iat |-> 0, token |-> [claims |-> <<>>, key |-> "none"],
            at |-> 0, result |-> [ok |-> FALSE, claims |-> <<>>]]
JwtInputs ==
    {[IdleJwt EXCEPT !.pc = "input", !.user_id = u, !.session_id = sid, !.role = r,
                     !.hours = h, !.iat = t] :
        u \in Users, sid \in SessionIds, r \in Roles,
        h \in {AccessHours, RefreshHours}, t \in {0, AccessHours}}

\* jwt_service.generate_token(user_id, session_id, role, hours).
GenerateToken ==
    /\ jwtCall.pc = "input"
    /\ jwtCall' = [jwtCall EXCEPT !.pc = "token",
                      !.token = generate_token(jwtCall.user_id, jwtCall.session_id,
                                               jwtCall.role, jwtCall.hours,
                                               jwtCall.iat)]
    /\ UNCHANGED <<wsvars, authvars, pwCall>>

\* jwt_service.create_token_pair(user_id, session_id, role): the caller goes
\* on with the token of the pair that has the lifetime asked for.
CreateTokenPair ==
    /\ jwtCall.pc = "input"
    /\ LET pair == create_token_pair(jwtCall.user_id, jwtCall.session_id,
                                     jwtCall.role, jwtCall.iat)
       IN  jwtCall' = [jwtCall EXCEPT !.pc = "token",
                          !.token = IF jwtCall.hours = AccessHours
                                    THEN pair.access ELSE pair.refresh]
    /\ UNCHANGED <<wsvars, authvars, pwCall>>

\* jwt_service.validate_token(token) at hour t.
ValidateToken(t) ==
    /\ jwtCall.pc = "token"
    /\ t >= jwtCall.iat
    /\ jwtCall' = [jwtCall EXCEPT !.pc = "claims", !.at = t,
                      !.result = validate_token(jwtCall.token, t)]
    /\ UNCHANGED <<wsvars, authvars, pwCall>>

\* -------------------------------------------------------- PasswordService
\* The characters passwords are typed from: one uppercase letter, one
\* lowercase letter, one digit and one character of the special list, each
\* one byte long in UTF-8.
Alphabet == {"N", "o", "1", "!"}

Passwords == UNION {[1..n -> Alphabet] : n \in 0..MaxPasswordChars}

is_uppercase(c) == c = "N"
is_lowercase(c) == c = "o"
is_numeric(c) == c = "1"
is_special(c) == c = "!"
len_utf8(c) == 1

RECURSIVE str_len(_)
\* str::len: the length in bytes.
str_len(password) ==
    IF password = <<>> THEN 0
    ELSE len_utf8(Head(password)) + str_len(Tail(password))

\* The [bool; 4] array, filtered and counted.
criteria_met(password) ==
    LET chars == Range(password)
        flags == <<\E c \in chars : is_uppercase(c), \E c \in chars : is_lowercase(c),
                   \E c \in chars : is_numeric(c), \E c \in chars : is_special(c)>>
    IN  Cardinality({i \in 1..4 : flags[i]})

\* PasswordService::validate_password_strength.
validate_password_strength(password) ==
    IF str_len(password) < MinPasswordLen THEN "Err_too_short"
    ELSE IF criteria_met(password) < MinCriteria THEN "Err_criteria"
    ELSE "Ok"

\* One call of validate_password_strength.
ValidatePasswordStrength ==
    /\ pwCall.pc = "input"
    /\ pwCall' = [pwCall EXCEPT !.pc = "done",
                     !.result = validate_password_strength(pwCall.password)]
    /\ UNCHANGED <<wsvars, authvars, jwtCall>>

\* ------------------------------------------------------------ AuthService
NoToken == [claims |-> [sub |-> <<>>, exp |-> 0, iat |-> 0, jti |-> <<>>,
                        role |-> "none"],
            key |-> "none"]
NoPair == [access |-> NoToken, refresh |-> NoToken]
NoSession == [id |-> 0, user_id |-> "none", token_hash |-> <<>>, expires_at |-> 0,
              created_at |-> 0, is_revoked |-> FALSE]
IdleRefresh == [pc |-> "idle", token |-> NoToken, session |-> NoSession,
                result |-> "none", pair |-> NoPair, reuse |-> FALSE,
                revoked_all |-> FALSE, at |-> 0, wrote |-> FALSE]

\* The tokens clients hold: both tokens of every pair handed out.
HeldTokens == UNION {{p.access, p.refresh} : p \in issued}

AuthInit ==
    /\ now = 0
    /\ sessions = {}
    /\ active = Users
    /\ nextUuid = 1
    /\ issued = {}
    /\ rc = [c \in Clients |-> IdleRefresh]
    /\ consumed = {}
    /\ revokedAll = {}
    /\ lastLogout = NoToken

\* create_login_response: Uuid::new_v4() for the tokens' session id, the
\* pair, then create_session, which draws the row's id from Uuid::new_v4()
\* again.
login_pair(user_id) == create_token_pair(user_id, nextUuid, "user", now)

sessions_after_login_access(user_id) ==
    create_session(sessions, nextUuid + 1, user_id,
                   generate_session_hash(login_pair(user_id).access),
                   now + SessionHours, now)

sessions_after_login(user_id) ==
    create_session(sessions, nextUuid + 1, user_id,
                   generate_session_hash(login_pair(user_id).refresh),
                   now + SessionHours, now)

\* AuthService::login (and register) with good credentials.
Login(u) ==
    /\ u \in active
    /\ nextUuid < 2 * MaxIssues
    /\ sessions' = sessions_after_login(u)
    /\ issued' = issued \cup {login_pair(u)}
    /\ nextUuid' = nextUuid + 2
    /\ UNCHANGED <<now, active, rc, consumed, revokedAll, lastLogout>>
    /\ UNCHANGED <<wsvars, fnvars>>

\* AuthService::refresh_token up to its first await: validate the token and
\* parse its jti.
RefreshBegin(c, token) ==
    /\ rc[c].pc = "idle"
    /\ rc' = [rc EXCEPT ![c] =
            IF extract_session_id(token, now).ok
            THEN [IdleRefresh EXCEPT !.pc = "find_session", !.token = token,
                                     !.reuse = token \in consumed,
                                     !.revoked_all = token \in revokedAll,
                                     !.at = now]
            ELSE [IdleRefresh EXCEPT !.pc = "done", !.token = token,
                                     !.reuse = token \in consumed,
                                     !.revoked_all = token \in revokedAll,
                                     !.at = now, !.result = "InvalidToken"]]
    /\ UNCHANGED <<now, sessions, active, nextUuid, issued, consumed, revokedAll, lastLogout>>
    /\ UNCHANGED <<wsvars, fnvars>>

RefreshFindSession_tells_reason(c) ==
    /\ rc[c].pc = "find_session"
    /\ LET found == find_session_by_token_hash(sessions,
                                               generate_session_hash(rc[c].token))
       IN  IF found = {}
           THEN rc' = [rc EXCEPT ![c].pc = "done", ![c].result = "SessionNotFound"]
           ELSE \E session \in found :
                   IF is_session_valid(session, now)
                   THEN rc' = [rc EXCEPT ![c].pc = "find_user",
                                         ![c].session = session]
                   ELSE rc' = [rc EXCEPT ![c].pc = "done",
                                         ![c].session = session,
                                         ![c].result = IF session.is_revoked
                                                       THEN "SessionRevoked"
                                                       ELSE "SessionExpired"]
    /\ UNCHANGED <<now, sessions, active, nextUuid, issued, consumed, revokedAll, lastLogout>>
    /\ UNCHANGED <<wsvars, fnvars>>

\* find_session_by_token_hash and the is_session_valid check.
RefreshFindSession(c) ==
    /\ rc[c].pc = "find_session"
    /\ LET found == find_session_by_token_hash(sessions,
                                               generate_session_hash(rc[c].token))
       IN  IF found = {}
           THEN rc' = [rc EXCEPT ![c].pc = "done", ![c].result = "SessionNotFound"]
           ELSE \E session \in found :
                   IF is_session_valid(session, now)
                   THEN rc' = [rc EXCEPT ![c].pc = "find_user",
                                         ![c].session = session]
                   ELSE rc' = [rc EXCEPT ![c].pc = "done",
                                         ![c].session = session,
                                         ![c].result = "SessionInvalid"]
    /\ UNCHANGED <<now, sessions, active, nextUuid, issued, consumed, revokedAll, lastLogout>>
    /\ UNCHANGED <<wsvars, fnvars>>

\* find_user_by_id: only a user whose row is active is found.
RefreshFindUser(c) ==
    /\ rc[c].pc = "find_user"
    /\ rc' = IF rc[c].session.user_id \in active
             THEN [rc EXCEPT ![c].pc = "revoke"]
             ELSE [rc EXCEPT ![c].pc = "done", ![c].result = "UserNotFound"]
    /\ UNCHANGED <<now, sessions, active, nextUuid, issued, consumed, revokedAll, lastLogout>>
    /\ UNCHANGED <<wsvars, fnvars>>

\* revoke_session(session.id).
RefreshRevoke(c) ==
    /\ rc[c].pc = "revoke"
    /\ sessions' = revoke_session(sessions, rc[c].session.id)
    /\ rc' = [rc EXCEPT ![c].pc = "issue",
                        ![c].wrote = @ \/ sessions' # sessions]
    /\ UNCHANGED <<now, active, nextUuid, issued, consumed, revokedAll, lastLogout>>
    /\ UNCHANGED <<wsvars, fnvars>>

\* create_login_response(user): the new pair and its session row. The cap on
\* the uuid counter leaves room for the issue of every other call in flight.
RefreshIssue(c) ==
    /\ rc[c].pc = "issue"
    /\ nextUuid < 2 * MaxIssues
                      + 2 * Cardinality({e \in Clients \ {c} : rc[e].pc # "idle"})
    /\ sessions' = sessions_after_login(rc[c].session.user_id)
    /\ issued' = issued \cup {login_pair(rc[c].session.user_id)}
    /\ nextUuid' = nextUuid + 2
    /\ consumed' = consumed \cup {rc[c].token}
    /\ rc' = [rc EXCEPT ![c].pc = "done", ![c].result = "Ok",
                        ![c].pair = login_pair(rc[c].session.user_id),
                        ![c].wrote = TRUE]
    /\ UNCHANGED <<now, active, revokedAll, lastLogout>>
    /\ UNCHANGED <<wsvars, fnvars>>

\* A statement of the call fails in the store (sqlx::Error): the `?` after
\* the await returns the error at once, whatever the call has written so far.
RefreshStoreError(c) ==
    /\ rc[c].pc \in {"find_session", "find_user", "revoke", "issue"}
    /\ rc' = [rc EXCEPT ![c].pc = "done", ![c].result = "StoreError"]
    /\ UNCHANGED <<now, sessions, active, nextUuid, issued, consumed, revokedAll, lastLogout>>
    /\ UNCHANGED <<wsvars, fnvars>>

\* The call has returned: the handler answers the client.
RefreshReturn(c) ==
    /\ rc[c].pc = "done"
    /\ rc' = [rc EXCEPT ![c] = IdleRefresh]
    /\ UNCHANGED <<now, sessions, active, nextUuid, issued, consumed, revokedAll, lastLogout>>
    /\ UNCHANGED <<wsvars, fnvars>>

\* AuthService::logout: revoke_session(jti of the token).
Logout(token) ==
    /\ extract_session_id(token, now).ok
    /\ sessions' = revoke_session(sessions, extract_session_id(token, now).value)
    /\ lastLogout' = token
    /\ UNCHANGED <<now, active, nextUuid, issued, rc, consumed, revokedAll>>
    /\ UNCHANGED <<wsvars, fnvars>>

\* AuthService::logout_all: revoke_all_user_sessions(sub of the token).
LogoutAll(token) ==
    /\ extract_user_id(token, now).ok
    /\ sessions' = revoke_all_user_sessions(sessions, extract_user_id(token, now).value)
    /\ revokedAll' = revokedAll \cup {p.refresh : p \in {q \in issued :
                                        q.refresh.claims.sub = token.claims.sub}}
    /\ UNCHANGED <<now, active, nextUuid, issued, rc, consumed, lastLogout>>
    /\ UNCHANGED <<wsvars, fnvars>>

\* AuthService::cleanup_expired_sessions: the periodic sweep.
Cleanup ==
    /\ sessions' = cleanup_expired_sessions(sessions, now)
    /\ UNCHANGED <<now, active, nextUuid, issued, rc, consumed, revokedAll, lastLogout>>
    /\ UNCHANGED <<wsvars, fnvars>>

\* user-service delete_user: the user's row gets is_active = false.
DeactivateUser(u) ==
    /\ u \in active
    /\ active' = active \ {u}
    /\ UNCHANGED <<now, sessions, nextUuid, issued, rc, consumed, revokedAll, lastLogout>>
    /\ UNCHANGED <<wsvars, fnvars>>

\* Time passes, up to the next instant at which a token or a session of the
\* first login changes its standing.
Tick(t) ==
    /\ t > now
    /\ now' = t
    /\ UNCHANGED <<sessions, active, nextUuid, issued, rc, consumed, revokedAll, lastLogout>>
    /\ UNCHANGED <<wsvars, fnvars>>

\* ------------------------------------------------------------- the system
IdlePw == [pc |-> "idle", password |-> <<>>, result |-> "none"]

FnIdle == jwtCall = IdleJwt /\ pwCall = IdlePw

Init == WsInit /\ AuthInit /\ FnIdle

vars == <<wsvars, authvars, fnvars>>

Next ==
    \/ \E h \in Handles, d \in Docs, tok \in TokenKinds, u \in Users :
            WebsocketHandler(h, d, tok, u)
    \/ \E h \in Handles : AddTaskRun(h)
    \/ \E h \in Handles : RemoveTaskRun(h)
    \/ \E h \in Handles, f \in ClosingFrames : HandleClose(h, f)
    \/ \E b \in Callers, d \in Docs, t \in MessageTypes : BroadcastMessage(b, d, t)
    \/ \E b \in Callers, d \in Docs, t \in MessageTypes, tok \in TokenKinds :
            HandlerBroadcast(b, d, t, tok)
    \/ \E b \in Callers : BroadcastStep(b)
    \/ \E b \in Callers : BroadcastEnd(b)

Spec == Init /\ [][Next]_vars

AuthNext ==
    \/ \E u \in Users : Login(u)
    \/ \E c \in SequentialClients, token \in HeldTokens : RefreshBegin(c, token)
    \/ \E c \in SequentialClients : RefreshFindSession(c)
    \/ \E c \in SequentialClients : RefreshFindUser(c)
    \/ \E c \in SequentialClients : RefreshRevoke(c)
    \/ \E c \in SequentialClients : RefreshIssue(c)
    \/ \E c \in SequentialClients : RefreshReturn(c)
    \/ \E token \in HeldTokens : LogoutAll(token)
    \/ Cleanup
    \/ \E t \in Instants : Tick(t)

AuthSpec == Init /\ [][AuthNext]_vars

\* The connection actors and the frames their clients send, without any
\* broadcast going on.
FrameNext ==
    \/ \E h \in Handles, d \in Docs, tok \in TokenKinds, u \in Users :
            WebsocketHandler(h, d, tok, u)
    \/ \E h \in Handles : AddTaskRun(h)
    \/ \E h \in Handles : RemoveTaskRun(h)
    \/ \E h \in Handles, f \in OpenFrames : HandleFrame(h, f)
    \/ \E h \in Handles, f \in ClosingFrames : HandleClose(h, f)

FrameSpec == Init /\ [][FrameNext]_vars

\* The session side with the user service deactivating users in between.
UserNext ==
    \/ \E u \in Users : Login(u)
    \/ \E c \in SequentialClients, token \in HeldTokens : RefreshBegin(c, token)
    \/ \E c \in SequentialClients : RefreshFindSession(c)
    \/ \E c \in SequentialClients : RefreshFindUser(c)
    \/ \E c \in SequentialClients : RefreshRevoke(c)
    \/ \E c \in SequentialClients : RefreshIssue(c)
    \/ \E c \in SequentialClients : RefreshReturn(c)
    \/ \E u \in Users : DeactivateUser(u)
    \/ Cleanup
    \/ \E t \in Instants : Tick(t)

UserSpec == Init /\ [][UserNext]_vars

\* The registry, broadcasts on it and the handles writing what they were
\* sent to their sockets, each in its own time, for clients that connect
\* with a valid token.
DeliveryNext ==
    \/ \E h \in Handles, d \in Docs, u \in Users : WebsocketHandler(h, d, "valid", u)
    \/ \E h \in Handles : AddTaskRun(h)
    \/ \E h \in Handles : RemoveTaskRun(h)
    \/ \E h \in Handles, f \in ClosingFrames : HandleClose(h, f)
    \/ \E h \in Handles : HandleSendMessage(h)
    \/ \E b \in Callers, d \in Docs, t \in MessageTypes : BroadcastMessage(b, d, t)
    \/ \E b \in Callers : BroadcastStep(b)
    \/ \E b \in Callers : BroadcastEnd(b)

DeliverySpec == Init /\ [][DeliveryNext]_vars

\* Login and refresh against a store whose statements can fail.
FaultNext ==
    \/ \E u \in Users : Login(u)
    \/ \E c \in SequentialClients, token \in HeldTokens : RefreshBegin(c, token)
    \/ \E c \in SequentialClients : RefreshFindSession(c)
    \/ \E c \in SequentialClients : RefreshFindUser(c)
    \/ \E c \in SequentialClients : RefreshRevoke(c)
    \/ \E c \in SequentialClients : RefreshIssue(c)
    \/ \E c \in SequentialClients : RefreshStoreError(c)
    \/ \E c \in SequentialClients : RefreshReturn(c)

FaultSpec == Init /\ [][FaultNext]_vars

\* Two clients refreshing while the first hour passes: sessions get revoked
\* by rotation and run out with the clock.
TwoCallNext ==
    \/ \E u \in Users : Login(u)
    \/ \E c \in Clients, token \in HeldTokens : RefreshBegin(c, token)
    \/ \E c \in Clients : RefreshFindSession(c)
    \/ \E c \in Clients : RefreshFindUser(c)
    \/ \E c \in Clients : RefreshRevoke(c)
    \/ \E c \in Clients : RefreshIssue(c)
    \/ \E c \in Clients : RefreshReturn(c)
    \/ Tick(SessionHours)

TwoCallSpec == Init /\ [][TwoCallNext]_vars

\* Login, logout and refresh: the endpoints a single client works with.
LogoutNext ==
    \/ \E u \in Users : Login(u)
    \/ \E token \in HeldTokens : Logout(token)
    \/ \E c \in SequentialClients, token \in HeldTokens : RefreshBegin(c, token)
    \/ \E c \in SequentialClients : RefreshFindSession(c)
    \/ \E c \in SequentialClients : RefreshFindUser(c)
    \/ \E c \in SequentialClients : RefreshRevoke(c)
    \/ \E c \in SequentialClients : RefreshIssue(c)
    \/ \E c \in SequentialClients : RefreshReturn(c)

LogoutSpec == Init /\ [][LogoutNext]_vars

\* The refresh endpoint serving several requests at once: every await of
\* refresh_token is a point where another request's step can run.
ConcNext ==
    \/ \E u \in Users : Login(u)
    \/ \E c \in Clients, token \in HeldTokens : RefreshBegin(c, token)
    \/ \E c \in Clients : RefreshFindSession(c)
    \/ \E c \in Clients : RefreshFindUser(c)
    \/ \E c \in Clients : RefreshRevoke(c)
    \/ \E c \in Clients : RefreshIssue(c)
    \/ \E c \in Clients : RefreshReturn(c)

ConcSpec == Init /\ [][ConcNext]_vars

\* The JwtService on its own: a token is generated from any arguments and
\* validated at any later hour.
TokenInit == WsInit /\ AuthInit /\ pwCall = IdlePw /\ jwtCall \in JwtInputs

TokenNext ==
    \/ GenerateToken
    \/ CreateTokenPair
    \/ \E t \in Instants \cup {RefreshHours} : ValidateToken(t)

TokenSpec == TokenInit /\ [][TokenNext]_vars

\* The PasswordService on its own: validate_password_strength is called with
\* any password of the bounded length.
PasswordInit ==
    /\ WsInit /\ AuthInit /\ jwtCall = IdleJwt
    /\ pwCall \in {[IdlePw EXCEPT !.pc = "input", !.password = w] : w \in Passwords}

PasswordNext == ValidatePasswordStrength

PasswordSpec == PasswordInit /\ [][PasswordNext]_vars

\* ================================================================ claims
\* The loop of caller b's call is over: the call is about to return.
CallFinished(b) ==
    /\ bc[b].pc = "iter"
    /\ bc[b].idx > Len(get_connections(Manager(bc[b].mgr), bc[b].doc))

\* The handles caller b's call has handed its payload to, in order.
SentTo(b) == [i \in 1..Len(bc[b].sent) |-> bc[b].sent[i].to]

\* C1: a finished broadcast(D, m) has handed the one serialized payload of m
\* exactly once to every handle registered (added and not removed since) for
\* D at call time and nothing to any other handle, so nothing to a handle of
\* another document and nothing to a handle deregistered before the call.
C1_BroadcastReachesExactlyRegistered ==
    \A b \in Callers : CallFinished(b) =>
        /\ \A h \in Handles :
              Occurrences(SentTo(b), h) = IF h \in bc[b].regAtCall THEN 1 ELSE 0
        /\ \A i \in 1..Len(bc[b].sent) :
              /\ bc[b].sent[i].payload = to_string([type |-> bc[b].json[2],
                                                    spreadsheet_id |-> bc[b].doc])
              /\ hdoc[bc[b].sent[i].to] = bc[b].doc
              /\ hstate[bc[b].sent[i].to] = "Open"
                    => Occurrences(mailbox[bc[b].sent[i].to], bc[b].sent[i].payload) >= 1

\* C1 witness: a broadcast finished after one of two handles of D had been
\* deregistered: it reached the remaining handle only.
C1_Witness ==
    \E b \in Callers, h1, h2 \in Handles :
        /\ CallFinished(b) /\ bc[b].mgr = "ws"
        /\ h1 # h2 /\ hdoc[h1] = bc[b].doc /\ hdoc[h2] = bc[b].doc
        /\ addTask[h1] = "done" /\ removeTask[h1] = "done" /\ h1 \notin regd
        /\ SentTo(b) = <<h2>> /\ bc[b].sent[1].ok
        /\ get_connection_count(connections, bc[b].doc) = 1

\* C2: when a document-mutating request handler has finished its broadcast
\* for D, every open /ws handle registered for D has been handed the event.
C2_HandlerEventReachesSockets ==
    \A b \in Callers : (CallFinished(b) /\ bc[b].mgr = "handlers") =>
        \A h \in Range(get_connections(connections, bc[b].doc)) :
            hstate[h] = "Open" => h \in Range(SentTo(b))

\* C3: connection_count(D) is the number of handles added and not removed
\* since, and D is a key of the map iff that number is positive; no key is
\* mapped to an empty list.
C3_CountIsNetRegistered ==
    \A d \in Docs :
        /\ get_connection_count(connections, d)
              = Cardinality({h \in regd : hdoc[h] = d})
        /\ d \in DOMAIN connections <=> get_connection_count(connections, d) > 0
        /\ d \in DOMAIN connections => connections[d] # <<>>

\* C3 witness: a handle that was never registered has been deregistered (its
\* remove task ran before its add task) while another handle is registered.
C3_Witness ==
    \E h, g \in Handles :
        /\ removeTask[h] = "done" /\ addTask[h] = "pending"
        /\ g \in regd /\ get_connection_count(connections, hdoc[g]) = 1

\* C4: a closed handle whose registration and deregistration tasks have both
\* run is no longer referenced by the registry.
C4_ClosedHandleDeregistered ==
    \A h \in Handles :
        (hstate[h] = "Closed" /\ addTask[h] = "done" /\ removeTask[h] = "done")
            => ~InRegistry(h)

\* C5: a handle is Open only when it is in the registry's list for its
\* document.
C5_OpenImpliesRegistered ==
    \A h \in Handles :
        hstate[h] = "Open" => h \in Range(get_connections(connections, hdoc[h]))

\* C6: while a broadcast call iterates, the map is the one it found at call
\* time (no add or remove took effect), what it has sent to is a prefix of
\* that list, and no handle was sent to twice.
C6_BroadcastIteratesSnapshot ==
    \A b \in Callers : bc[b].pc = "iter" =>
        /\ Manager(bc[b].mgr) = bc[b].mapAtCall
        /\ bc[b].idx <= Len(bc[b].listAtCall) + 1
        /\ SentTo(b) = SubSeq(bc[b].listAtCall, 1, bc[b].idx - 1)
        /\ \A h \in Handles : Occurrences(SentTo(b), h) <= 1
        /\ bc[b].mgr = "ws" => b \in readers

\* C6 witness: a broadcast is in the middle of its list while a deregistration
\* task waits for the lock.
C6_Witness ==
    \E b \in Callers, h \in Handles :
        /\ bc[b].pc = "iter" /\ bc[b].mgr = "ws"
        /\ 1 < bc[b].idx /\ bc[b].idx <= Len(bc[b].listAtCall)
        /\ removeTask[h] = "pending" /\ hdoc[h] = bc[b].doc

\* C7: a failed delivery neither ends the loop nor raises an error: the call
\* goes through the whole list, and every handle after a failed one that is
\* open has the payload in its mailbox.
C7_FailedSendDoesNotStopBroadcast ==
    \A b \in Callers : bc[b].pc = "iter" =>
        /\ bc[b].err = "none"
        /\ bc[b].idx = Len(bc[b].sent) + 1
        /\ \A i, j \in 1..Len(bc[b].sent) :
              (i < j /\ ~bc[b].sent[i].ok) =>
                  /\ bc[b].sent[j].to = bc[b].listAtCall[j]
                  /\ hstate[bc[b].sent[j].to] = "Open" =>
                        /\ bc[b].sent[j].ok
                        /\ Occurrences(mailbox[bc[b].sent[j].to], bc[b].json) >= 1

\* C7 witness: a finished call whose first delivery failed and whose second
\* succeeded.
C7_Witness ==
    \E b \in Callers :
        /\ CallFinished(b) /\ Len(bc[b].sent) = 2
        /\ ~bc[b].sent[1].ok /\ bc[b].sent[2].ok
        /\ mailbox[bc[b].sent[2].to] # <<>>

\* C8: a broadcast for a document that is not a key of the map has nothing
\* to iterate, sends nothing, raises nothing and leaves the map as it was.
C8_BroadcastToEmptyIsNoOp ==
    \A b \in Callers :
        (bc[b].pc = "iter" /\ bc[b].doc \notin DOMAIN bc[b].mapAtCall) =>
            /\ CallFinished(b)
            /\ bc[b].sent = <<>>
            /\ bc[b].err = "none"
            /\ Manager(bc[b].mgr) = bc[b].mapAtCall

\* C8 witness: a broadcast on the /ws manager for a document without handles
\* while another document has one.
C8_Witness ==
    \E b \in Callers :
        /\ bc[b].pc = "iter" /\ bc[b].mgr = "ws"
        /\ bc[b].doc \notin DOMAIN connections
        /\ DOMAIN connections # {}
        /\ \E h \in Handles : hstate[h] = "Open" /\ h \in regd

\* C9: every connection handle was created for an upgrade request that
\* carried a token that validates.
C9_UnauthorizedUpgradeRejected ==
    lastUpgrade.handle # 0 => lastUpgrade.valid_token

C11_ConcurrentRefreshOneWinner ==
    \A c, e \in Clients :
        (c # e /\ rc[c].pc = "done" /\ rc[e].pc = "done"
              /\ rc[c].token = rc[e].token
              /\ rc[c].token \in {p.refresh : p \in issued}
              /\ ~rc[c].reuse /\ ~rc[e].reuse) =>
            /\ "Ok" \in {rc[c].result, rc[e].result}
            /\ "SessionInvalid" \in {rc[c].result, rc[e].result}
            /\ ~\E r1, r2 \in sessions :
                  /\ r1.token_hash = generate_session_hash(rc[c].pair.refresh)
                  /\ r2.token_hash = generate_session_hash(rc[e].pair.refresh)
                  /\ r1 # r2
                  /\ is_session_valid(r1, now) /\ is_session_valid(r2, now)

\* C12: a refresh call that presents a refresh token issued to a user before
\* a completed logout_all of that user never succeeds: it gets no further than
\* the session check and returns an error.
C12_RevokeAllDefeatsEarlierTokens ==
    \A c \in Clients :
        rc[c].revoked_all =>
            /\ rc[c].pc \in {"find_session", "done"}
            /\ rc[c].pc = "done" =>
                  rc[c].result \in {"SessionInvalid", "SessionNotFound", "InvalidToken"}

\* C12 witness: a refresh with a token that was never used before and is,
\* like its session row, unexpired, has failed with session-invalid after a
\* logout_all of its user.
C12_Witness ==
    \E c \in Clients :
        /\ rc[c].pc = "done" /\ rc[c].revoked_all /\ ~rc[c].reuse
        /\ rc[c].token \in {p.refresh : p \in issued}
        /\ rc[c].token.claims.exp >= rc[c].at
        /\ rc[c].at < rc[c].session.expires_at
        /\ rc[c].result = "SessionInvalid"

\* C13: after a successful logout with a token of an issued pair, the session
\* row that was created with that pair, if the store still has it, has its
\* revocation flag set.
C13_LogoutRevokesSession ==
    \A p \in issued :
        lastLogout \in {p.access, p.refresh} =>
            \A r \in sessions :
                r.token_hash = generate_session_hash(p.refresh) => r.is_revoked

\* C14: a refresh call made after the expiry of the pair's access token and
\* not after the expiry of its refresh token, whose session row is in the
\* store and not revoked, succeeds and returns a pair whose access token
\* validates, while the old access token no longer validates.
C14_RefreshOutlivesAccessToken ==
    \A c \in Clients : \A p \in issued :
        (/\ rc[c].pc = "done" /\ rc[c].token = p.refresh
         /\ p.access.claims.exp < rc[c].at /\ rc[c].at <= p.refresh.claims.exp
         /\ rc[c].session # NoSession /\ ~rc[c].session.is_revoked) =>
            /\ ~validate_token(p.access, rc[c].at).ok
            /\ rc[c].result = "Ok"
            /\ validate_token(rc[c].pair.access, rc[c].at).ok

\* C15: for every issued pair, the session row created with it carries the
\* identifier that both tokens embed as jti, and stores the hash of the
\* refresh token, not the token.
C15_JtiNamesSessionRow ==
    \A p \in issued : \A r \in sessions :
        r.token_hash = generate_session_hash(p.refresh) =>
            /\ p.access.claims.jti = p.refresh.claims.jti
            /\ uuid_to_string(r.id) = p.refresh.claims.jti
            /\ r.token_hash # p.refresh

C17_ValidateIgnoresStore ==
    \A p \in issued :
        /\ validate_token(p.access, now).ok <=> now <= p.access.claims.exp
        /\ validate_token(p.access, now).ok =>
              validate_token(p.access, now).claims = p.access.claims

\* C17 witness: an access token still validates although the session row of
\* its pair was revoked (by logout_all or by a refresh) and then swept.
C17_Witness ==
    \E p \in issued :
        /\ validate_token(p.access, now).ok
        /\ p.refresh \in revokedAll \cup consumed
        /\ ~\E r \in sessions : r.token_hash = generate_session_hash(p.refresh)

\* The Text frame that carries a Ping protocol message, and the Text frames
\* whose payload does not parse as a protocol message.
PingText == [kind |-> "Text", text |-> "{type:Ping}"]

MalformedTexts ==
    {[kind |-> "Text", text |-> t] : t \in {x \in TextPayloads : ~from_str(x).ok}}

\* C18: handling a Ping protocol message on a handle appends exactly one Pong
\* message to that handle's socket and leaves every other socket as it was.
C18_PingAnsweredWithOnePong ==
    [][\A h \in Handles :
          HandleFrame(h, PingText) =>
              socket' = [socket EXCEPT ![h] = Append(@, PongJson)]]_vars

\* C18 witness: an open handle has answered a Ping message with one Pong
\* message while another open handle's socket has nothing.
C18_Witness ==
    \E h, g \in Handles :
        /\ h # g /\ hstate[h] = "Open" /\ hstate[g] = "Open"
        /\ socket[h] = <<PongJson>> /\ socket[g] = <<>>
        /\ nframes = 1

\* C19: handling a malformed text payload on a handle appends exactly one
\* Error message to that handle's socket; the handle stays Open, the registry
\* and every other handle's state, mailbox and socket stay as they were.
C19_MalformedTextGetsOneError ==
    [][\A h \in Handles : \A f \in MalformedTexts :
          HandleFrame(h, f) =>
              /\ socket' = [socket EXCEPT ![h] = Append(@, ErrorJson)]
              /\ hstate'[h] = "Open"
              /\ UNCHANGED <<hstate, connections, regd, mailbox, addTask,
                             removeTask>>]_vars

\* C19 witness: an open, registered handle has been sent the Error message
\* while another open, registered handle of the same document has nothing.
C19_Witness ==
    \E h, g \in Handles :
        /\ h # g /\ hstate[h] = "Open" /\ hstate[g] = "Open"
        /\ hdoc[h] = hdoc[g] /\ {h, g} \subseteq regd
        /\ InRegistry(h) /\ InRegistry(g)
        /\ socket[h] = <<ErrorJson>> /\ socket[g] = <<>>

\* C20: validate_password_strength returns an error for every password
\* shorter than 8 characters and for every password without a digit, and Ok
\* for every password of at least 8 characters that has an uppercase letter,
\* a lowercase letter, a digit and a special character.
C20_PasswordStrength ==
    pwCall.pc = "done" =>
        LET w == pwCall.password
            chars == Range(w)
        IN  /\ Len(w) < 8 => pwCall.result # "Ok"
            /\ (~\E c \in chars : is_numeric(c)) => pwCall.result # "Ok"
            /\ (/\ Len(w) >= 8
                /\ \E c \in chars : is_uppercase(c)
                /\ \E c \in chars : is_lowercase(c)
                /\ \E c \in chars : is_numeric(c)
                /\ \E c \in chars : is_special(c)) => pwCall.result = "Ok"

C22_LockNotHeldAcrossSocketWrite ==
    /\ [](\A b \in readers :
            /\ bc[b].pc = "iter" /\ bc[b].mgr = "ws"
            /\ ENABLED (BroadcastStep(b) \/ BroadcastEnd(b)))
    /\ [][/\ \A b \in Callers : BroadcastStep(b) => socket' = socket
          /\ \A h \in Handles : HandleSendMessage(h) =>
                /\ socket' = [socket EXCEPT ![h] = Append(@, Head(mailbox[h]))]
                /\ UNCHANGED <<readers, connections, bc>>]_vars

\* C22 witness: the lock is free and a handle has been registered while
\* another handle of the same document still has not written the payload a
\* broadcast left in its mailbox.
C22_Witness ==
    \E h, g \in Handles :
        /\ h # g /\ hdoc[h] = hdoc[g] /\ readers = {}
        /\ mailbox[h] # <<>> /\ socket[h] = <<>>
        /\ hstate[g] = "Open" /\ g \in regd
        /\ mailbox[g] = <<>> /\ socket[g] = <<>>
        /\ \A b \in Callers : bc[b].pc = "idle"

\* C23 as stated: a refresh call whose token validated succeeds only if the
\* session row with the token's hash was found usable, and always if the row
\* found is usable even now; it fails with session-not-found iff no row was
\* found, and with session-invalid otherwise.
C23_RefreshIffSessionUsable ==
    \A c \in Clients :
        (rc[c].pc = "done" /\ rc[c].result # "InvalidToken") =>
            /\ rc[c].result \in {"Ok", "SessionNotFound", "SessionInvalid"}
            /\ rc[c].result = "SessionNotFound" <=> rc[c].session = NoSession
            /\ rc[c].result = "Ok" =>
                  /\ rc[c].session # NoSession
                  /\ ~rc[c].session.is_revoked
                  /\ rc[c].at < rc[c].session.expires_at
            /\ (/\ rc[c].session # NoSession
                /\ ~rc[c].session.is_revoked
                /\ now < rc[c].session.expires_at) => rc[c].result = "Ok"

\* The session row a call found has the hash of the token presented.
FoundByHash(c) ==
    rc[c].session.token_hash = generate_session_hash(rc[c].token)

\* C23, amended: a refresh call whose token validated gets past the session
\* check only with a row of the token's hash that was not revoked and not
\* expired; it fails with session-not-found only when the store has no row of
\* that hash, with session-invalid only when the row found is revoked or
\* expired, and, when the row is usable, with user-not-found exactly when the
\* user is no longer active; otherwise it succeeds.
C23_RefreshOutcomeAmended ==
    \A c \in Clients :
        /\ rc[c].pc \in {"find_user", "revoke", "issue"} \/ rc[c].result \in {"Ok", "UserNotFound"}
              => /\ FoundByHash(c) /\ ~rc[c].session.is_revoked
                 /\ rc[c].at < rc[c].session.expires_at
        /\ rc[c].result = "SessionNotFound"
              => /\ rc[c].session = NoSession
                 /\ find_session_by_token_hash(sessions,
                                               generate_session_hash(rc[c].token)) = {}
        /\ rc[c].result = "SessionInvalid"
              => /\ FoundByHash(c)
                 /\ rc[c].session.is_revoked \/ now >= rc[c].session.expires_at
        /\ rc[c].result = "UserNotFound" => rc[c].session.user_id \notin active
        /\ rc[c].pc \in {"revoke", "issue"} \/ rc[c].result = "Ok"
              => rc[c].session.user_id \in Users
        /\ rc[c].pc = "done" =>
              rc[c].result \in {"Ok", "InvalidToken", "SessionNotFound",
                                "SessionInvalid", "UserNotFound"}

\* C23 witness: a refresh with a row that is neither revoked nor expired has
\* failed with user-not-found because the user was deactivated.
C23_Witness ==
    \E c \in Clients :
        /\ rc[c].pc = "done" /\ rc[c].result = "UserNotFound"
        /\ FoundByHash(c) /\ ~rc[c].session.is_revoked
        /\ now < rc[c].session.expires_at
        /\ rc[c].session \in sessions

\* C24: a refresh call that returns an error has left the Session Store as it
\* was: it has set no session's revocation flag and created no session, also
\* when the store fails on create_session after the old session was found.
C24_FailedRefreshLeavesStoreUnchanged ==
    \A c \in Clients : (rc[c].pc = "done" /\ rc[c].result # "Ok") =>
        ~rc[c].wrote
\* The access tokens of the pairs handed out.
AccessTokens == {p.access : p \in issued}

\* C25: only refresh tokens refresh. The two tokens of an issued pair differ,
\* no session row holds the hash of an access token, and a refresh call that
\* presents an access token never gets past the session lookup: it fails
\* (rejected token or session not found) and writes nothing to the store.
C25_AccessTokenCannotRefresh ==
    /\ \A p \in issued :
          /\ p.access # p.refresh
          /\ find_session_by_token_hash(sessions, generate_session_hash(p.access)) = {}
    /\ \A c \in Clients : (rc[c].pc # "idle" /\ rc[c].token \in AccessTokens) =>
          /\ rc[c].pc \in {"find_session", "done"}
          /\ rc[c].pc = "done" => rc[c].result \in {"InvalidToken", "SessionNotFound"}
          /\ rc[c].session = NoSession
          /\ ~rc[c].wrote

\* C25 witness: a refresh with the access token of a pair has failed with
\* session-not-found while the session of that very pair is still usable.
C25_Witness ==
    \E c \in Clients, p \in issued :
        /\ rc[c].pc = "done" /\ rc[c].token = p.access
        /\ rc[c].result = "SessionNotFound"
        /\ \E s \in find_session_by_token_hash(sessions, generate_session_hash(p.refresh)) :
              is_session_valid(s, now)
\* The session found by call c was unusable when it was looked up: revoked in
\* the row as read, or past expires_at already when the call began.
FoundUnusable(c) ==
    /\ rc[c].pc = "done" /\ rc[c].session # NoSession
    /\ rc[c].session.is_revoked \/ rc[c].session.expires_at <= rc[c].at

\* C26: refresh does not tell a revoked session from an expired one. Any two
\* finished calls whose sessions were unusable, for whichever reason, carry the
\* same error value, and for every session row of the store the check's
\* verdict at any hour is the same for the row revoked but unexpired as for
\* the row unrevoked but expired.
C26_RevokedAndExpiredLookAlike ==
    /\ \A c, d \in Clients : (FoundUnusable(c) /\ FoundUnusable(d)) =>
          /\ rc[c].result = rc[d].result
          /\ rc[c].result = "SessionInvalid"
    /\ \A s \in sessions, t \in Instants :
          is_session_valid([s EXCEPT !.is_revoked = TRUE, !.expires_at = t + 1], t)
              = is_session_valid([s EXCEPT !.is_revoked = FALSE, !.expires_at = t], t)

\* C26 witness: one call has failed on a session that is revoked and not yet
\* expired when it began, another on a session that is expired and not
\* revoked, and both hold the same error value.
C26_Witness ==
    \E c, d \in Clients :
        /\ FoundUnusable(c) /\ FoundUnusable(d)
        /\ rc[c].session.is_revoked /\ rc[c].at < rc[c].session.expires_at
        /\ ~rc[d].session.is_revoked /\ rc[d].session.expires_at <= rc[d].at
        /\ rc[c].result = rc[d].result
\* The rows of the store that are revoked or whose expires_at is before now.
Sweepable == {s \in sessions : s.is_revoked \/ s.expires_at < now}

\* The row s of the store is gone after the step.
Removed(s) == \A r \in sessions' : r.id # s.id

\* C27: session rows are removed only by the sweep, and the sweep removes
\* exactly the rows that are revoked or whose expires_at is before now: a
\* step that removes a row is a sweep, a sweep leaves exactly the other rows,
\* each one unchanged, so never removes a usable session, and the number it
\* returns is the number of rows it removed.
C27_OnlySweepRemovesSessions ==
    /\ [](/\ cleanup_rows_affected(sessions, now) = Cardinality(Sweepable)
          /\ cleanup_rows_affected(sessions, now)
                = Cardinality(sessions)
                    - Cardinality(cleanup_expired_sessions(sessions, now))
          /\ \A s \in Sweepable : ~is_session_valid(s, now))
    /\ [][/\ (\E s \in sessions : Removed(s)) => Cleanup
          /\ \A s \in sessions : Removed(s) => s \in Sweepable
          /\ Cleanup => /\ sessions' = sessions \ Sweepable
                        /\ \A s \in sessions : is_session_valid(s, now) => s \in sessions'
                        /\ Cardinality(sessions) - Cardinality(sessions')
                              = cleanup_rows_affected(sessions, now)]_vars

\* C27 witness: the session of an issued pair is gone from the store, which
\* only a sweep does, while a usable session is still there.
C27_Witness ==
    /\ \E p \in issued :
          find_session_by_token_hash(sessions, generate_session_hash(p.refresh)) = {}
    /\ \E s \in sessions : is_session_valid(s, now)
\* The Text frames that carry a well-formed protocol message other than Ping.
OtherMessageTexts ==
    {[kind |-> "Text", text |-> t] :
        t \in {x \in TextPayloads : from_str(x).ok /\ from_str(x).type # "Ping"}}

\* C28: handling a well-formed protocol message other than Ping does nothing
\* further: no socket of any handle, the sender's included, gets a frame, no
\* mailbox gets an item, no broadcast call begins or advances, and the
\* registry and every handle's state stay as they were.
C28_OtherMessageHasNoEffect ==
    [][\A h \in Handles : \A f \in OtherMessageTexts :
          HandleFrame(h, f) =>
              UNCHANGED <<socket, mailbox, bc, nbroadcasts, readers, connections,
                          handlerConnections, regd, regOrder, hstate, hdoc,
                          addTask, removeTask>>]_vars

\* C28 witness: a RowUpdated message has just been handled while two handles
\* of one document are open and registered, and every socket is still empty.
C28_Witness ==
    /\ lastFrame \in OtherMessageTexts /\ lastFrame.text = "{type:RowUpdated}"
    /\ \E h, g \in Handles :
          /\ h # g /\ hstate[h] = "Open" /\ hstate[g] = "Open"
          /\ hdoc[h] = hdoc[g] /\ InRegistry(h) /\ InRegistry(g)
    /\ \A h \in Handles : socket[h] = <<>> /\ mailbox[h] = <<>>
\* The frames that are protocol errors on an open socket: the unsupported
\* binary frame and the malformed text payloads.
BinaryFrame == [kind |-> "Binary", text |-> ""]

ProtocolErrorFrames == {BinaryFrame} \cup MalformedTexts

\* C29: handling a protocol error frame, unsupported (binary) or malformed,
\* on a handle appends one Error message to that handle's socket, leaves the
\* handle Open and leaves the registry and every other handle's state,
\* mailbox and socket as they were.
C29_ProtocolErrorsReported ==
    [][\A h \in Handles : \A f \in ProtocolErrorFrames :
          HandleFrame(h, f) =>
              /\ socket' = [socket EXCEPT ![h] = Append(@, ErrorJson)]
              /\ hstate'[h] = "Open"
              /\ UNCHANGED <<hstate, connections, regd, mailbox, addTask,
                             removeTask>>]_vars
\* C30: a close frame or a transport error on one handle closes that handle
\* only. The step leaves every other handle's state, mailbox and pending
\* tasks, the registry and every broadcast call as they were; the
\* deregistration that follows takes no other handle's entry out of any
\* list and changes no handle's state; and no broadcast call ever carries an
\* error, also when it meets the closed handle.
C30_CloseAffectsOnlyThatHandle ==
    /\ [](\A b \in Callers : bc[b].err = "none")
    /\ [][/\ \A h \in Handles : \A f \in ClosingFrames :
                HandleClose(h, f) =>
                    /\ hstate' = [hstate EXCEPT ![h] = "Closed"]
                    /\ UNCHANGED <<connections, handlerConnections, regd, regOrder,
                                   socket, bc, addTask>>
                    /\ \A g \in Handles \ {h} :
                          /\ mailbox'[g] = mailbox[g]
                          /\ removeTask'[g] = removeTask[g]
          /\ \A h \in Handles :
                RemoveTaskRun(h) =>
                    /\ UNCHANGED <<hstate, mailbox, socket, bc, handlerConnections>>
                    /\ regd' = regd \ {h}
                    /\ \A d \in Docs : \A g \in Handles \ {h} :
                          Occurrences(get_connections(connections', d), g)
                              = Occurrences(get_connections(connections, d), g)
          /\ \A b \in Callers :
                BroadcastStep(b) => bc'[b].pc = "iter" /\ bc'[b].err = "none"]_vars

\* C30 witness: of two handles of one document one has closed and been
\* deregistered; the other is still Open and in the registry.
C30_Witness ==
    \E h, g \in Handles :
        /\ h # g /\ hdoc[h] = hdoc[g]
        /\ hstate[h] = "Closed" /\ removeTask[h] = "done" /\ ~InRegistry(h)
        /\ hstate[g] = "Open" /\ InRegistry(g) /\ g \in regd
====
